---- MODULE Spec2Model ----
(***************************************************************************)
(* Peak annotation (src/src/annotate.rs, src/src/lib.rs), chromatogram     *)
(* extraction (src/src/lfq.rs) and the Mzml object (src/src/spectra.rs)    *)
(* of sage-pyo3.                                                           *)
(*                                                                         *)
(* Numbers.  The program computes in f32.  The model computes in exact     *)
(* integer arithmetic: a mass, a retention time and an intensity are       *)
(* integers in model units, and a tolerance bound center*(1 + ppm/1e6) is  *)
(* kept as the pair (center, ppm) and compared exactly (total_cmp below).  *)
(* Rounding of f32 is therefore not modelled.                              *)
(*                                                                         *)
(* Library code.  binary_search_slice, Tolerance, IonSeries, Peptide,      *)
(* Residue and VALID_AA belong to the sage_core crate, which is not among  *)
(* the source files; they are modelled from sections 4.1 - 4.3 of the      *)
(* specification.  Where section 4.1 leaves the result undefined (lo > hi) *)
(* the model allows every pair of indices.                                 *)
(***************************************************************************)
EXTENDS Integers, Sequences, FiniteSets, TLC

VARIABLES
    op,             \* which the behaviour runs: "annotate", "xic" or "mzml"
    pc,             \* position in the call
    sequence,       \* annotate_sequence: sequence (a sequence of characters)
    mods,           \* annotate_sequence: mods (Option, at most one entry here)
    query,          \* annotate_sequence: spectrum.peaks after spectrum.into()
    tolerance_ppm,  \* annotate_sequence: tolerance_ppm (Option)
    charge,         \* annotate_sequence: charge (Option)
    fragments,      \* annotate_peaks: the sorted (ordinal, ion) ladder
    spectra,        \* xic: the spectrum collection; Mzml: the field spectra
    rt_min,         \* xic: rt_min
    rt_max,         \* xic: rt_max
    mass,           \* xic: mass (the target mass)
    window,         \* xic: the (start, end) index pair of the range search
    tasks,          \* per parallel task: [state, out]
    result,         \* the collected Vec returned by the call
    err,            \* the PyErr returned by the call, if any
    last_scan,      \* Mzml: the field last_scan
    title_to_idx,   \* Mzml: the field title_to_idx, title -> 0-based index
    passes,         \* Mzml: the number of calls of __iter__ so far
    returned        \* Mzml: what the calls of __next__ returned so far, in order

vars == <<op, pc, sequence, mods, query, tolerance_ppm, charge, fragments,
          spectra, rt_min, rt_max, mass, window, tasks, result, err,
          last_scan, title_to_idx, passes, returned>>

annotateInputs == <<sequence, mods, query, tolerance_ppm, charge>>
xicInputs == <<spectra, rt_min, rt_max, mass>>
mzmlState == <<last_scan, title_to_idx, passes, returned>>

----------------------------------------------------------------------------
(* Bounds of the model *)

MaxSeqLen == 3
MaxPeaks == 2
MaxCharge == 3
MaxSpectra == 3

----------------------------------------------------------------------------
(* Option<T>: None is the empty sequence, Some(v) is <<v>> *)

None == <<>>
Some(v) == <<v>>
unwrap_or(o, d) == IF o = None THEN d ELSE o[1]

Range(s) == {s[i] : i \in DOMAIN s}
Count(s, x) == Cardinality({i \in DOMAIN s : s[i] = x})
SameBag(s, t) == \A x \in Range(s) \cup Range(t) : Count(s, x) = Count(t, x)
SubBag(s, t) == \A x \in Range(s) : Count(s, x) <= Count(t, x)

RECURSIVE Flatten(_)
Flatten(ss) == IF ss = <<>> THEN <<>> ELSE Head(ss) \o Flatten(Tail(ss))

RECURSIVE SumTo(_, _)
SumTo(f, n) == IF n = 0 THEN 0 ELSE f[n] + SumTo(f, n - 1)

----------------------------------------------------------------------------
(* sage_core::mass *)

Million == 1000000

\* Tolerance::Ppm(lo, hi).bounds(center): (center*(1+lo/1e6), center*(1+hi/1e6)),
\* each bound kept as (center, ppm).
Tolerance_Ppm_bounds(lo_ppm, hi_ppm, center) ==
    << [c |-> center, ppm |-> lo_ppm], [c |-> center, ppm |-> hi_ppm] >>

\* A plain number as a bound.
Exact(x) == [c |-> x, ppm |-> 0]

\* f32::total_cmp of the number x with the bound b, computed exactly:
\* x ? c*(1 + ppm/1e6)  <=>  (x - c)*1e6 ? c*ppm.
total_cmp(x, b) ==
    LET d == (x - b.c) * Million - b.c * b.ppm
    IN  IF d < 0 THEN "Less" ELSE IF d = 0 THEN "Equal" ELSE "Greater"

\* x >= lo && x <= hi
InBounds(x, lo, hi) == total_cmp(x, lo) # "Less" /\ total_cmp(x, hi) # "Greater"

\* lo <= hi for two bounds
BoundLE(lo, hi) ==
    (lo.c - hi.c) * Million + lo.c * lo.ppm - hi.c * hi.ppm <= 0

\* The characters of the model; VALID_AA holds the amino-acid symbols among them.
Chars == {"G", "A", "X"}
VALID_AA == {"G", "A"}

\* Residue::monoisotopic, in model units.
ResidueMass(ch) == IF ch = "G" THEN 4 ELSE 6

monoisotopic(r) == ResidueMass(r.ch) + r.mod

\* Peptide::static_mod(resi, mass): the mass is added to every residue resi.
static_mod(peptide, resi, m) ==
    LET hit == {i \in DOMAIN peptide.sequence : peptide.sequence[i].ch = resi}
    IN  [peptide EXCEPT
            !.sequence = [i \in DOMAIN peptide.sequence |->
                            IF i \in hit
                            THEN [ch |-> resi, mod |-> peptide.sequence[i].mod + m]
                            ELSE peptide.sequence[i]],
            !.monoisotopic = peptide.monoisotopic + m * Cardinality(hit)]

----------------------------------------------------------------------------
(* sage_core::ion_series *)

\* The mass of the first n residues.
PrefixMass(peptide, n) ==
    SumTo([i \in DOMAIN peptide.sequence |-> monoisotopic(peptide.sequence[i])], n)

\* IonSeries::new(peptide, kind) as the sequence of the ions it yields: one ion
\* per residue boundary, B the prefix masses, Y the suffix masses, longest first.
IonSeries(peptide, kind) ==
    [i \in 1 .. (Len(peptide.sequence) - 1) |->
        [kind |-> kind,
         monoisotopic_mass |->
            IF kind = "B" THEN PrefixMass(peptide, i)
            ELSE peptide.monoisotopic - PrefixMass(peptide, i)]]

----------------------------------------------------------------------------
(* sage_core::database::binary_search_slice *)

RECURSIVE lower_bound(_, _, _, _)
\* The first 0-based index in l..r whose key is not Less than target.
lower_bound(keys, target, l, r) ==
    IF l >= r THEN l
    ELSE LET m == (l + r) \div 2
         IN  IF total_cmp(keys[m + 1], target) = "Less"
             THEN lower_bound(keys, target, m + 1, r)
             ELSE lower_bound(keys, target, l, m)

RECURSIVE upper_bound(_, _, _, _)
\* The first 0-based index in l..r whose key is Greater than target.
upper_bound(keys, target, l, r) ==
    IF l >= r THEN l
    ELSE LET m == (l + r) \div 2
         IN  IF total_cmp(keys[m + 1], target) # "Greater"
             THEN upper_bound(keys, target, m + 1, r)
             ELSE upper_bound(keys, target, l, m)

\* The (start, end) pairs binary_search_slice may return for keys sorted
\* ascending: the one exact range when lo <= hi, any pair when lo > hi.
binary_search_slice(keys, lo, hi) ==
    IF BoundLE(lo, hi)
    THEN { << lower_bound(keys, lo, 0, Len(keys)),
              upper_bound(keys, hi, 0, Len(keys)) >> }
    ELSE (0 .. Len(keys)) \X (0 .. Len(keys))

----------------------------------------------------------------------------
(* src/src/lib.rs: Database::annotate_sequence *)

\* FirstInvalid with a loop that starts at the second character.
FirstInvalid_SkipFirst(s) ==
    LET bad == {i \in DOMAIN s : i > 1 /\ s[i] \notin VALID_AA}
    IN  IF bad = {} THEN 0 ELSE CHOOSE i \in bad : \A j \in bad : i <= j

\* The first character of the sequence that is not in VALID_AA, as the loop
\* of lines 86-93 finds it; 0 when there is none.
FirstInvalid(s) ==
    LET bad == {i \in DOMAIN s : s[i] \notin VALID_AA}
    IN  IF bad = {} THEN 0 ELSE CHOOSE i \in bad : \A j \in bad : i <= j

NoErr == [kind |-> "none", sequence |-> <<>>, ch |-> ""]

\* PyValueError("Sequence {} contains invalid amino acid {}", sequence, c)
InvalidAminoAcid(s, c) == [kind |-> "PyValueError", sequence |-> s, ch |-> c]

\* Lines 95-112: the Peptide of the sequence, with the mods applied.
MakePeptide(s, ms) ==
    LET residues == [i \in DOMAIN s |-> [ch |-> s[i], mod |-> 0]]
        base == [decoy |-> FALSE,
                 monoisotopic |->
                    SumTo([i \in DOMAIN s |-> monoisotopic(residues[i])], Len(s)),
                 sequence |-> residues,
                 missed_cleavages |-> 0]
    IN  IF ms = None THEN base ELSE static_mod(base, ms[1].resi, ms[1].mass)

----------------------------------------------------------------------------
(* src/src/annotate.rs: annotate_peaks *)

saturating_sub(a, b) == IF a >= b THEN a - b ELSE 0

\* ChainedFragments with the Y ordinals counted like the B ordinals, idx + 1.
ChainedFragments_YForward(peptide) ==
    LET b == IonSeries(peptide, "B")
        y == IonSeries(peptide, "Y")
    IN  [i \in 1 .. (Len(b) + Len(y)) |->
            IF i <= Len(b)
            THEN [index |-> (i - 1) + 1, ion |-> b[i]]
            ELSE [index |-> (i - Len(b) - 1) + 1, ion |-> y[i - Len(b)]]]

\* Lines 38-46: the B ions with ordinal idx + 1, chained with the Y ions with
\* ordinal len - (1 + idx); idx is the 0-based position in its series.
ChainedFragments(peptide) ==
    LET b == IonSeries(peptide, "B")
        y == IonSeries(peptide, "Y")
        n == Len(peptide.sequence)
    IN  [i \in 1 .. (Len(b) + Len(y)) |->
            IF i <= Len(b)
            THEN [index |-> (i - 1) + 1, ion |-> b[i]]
            ELSE [index |-> saturating_sub(n, 1 + (i - Len(b) - 1)),
                  ion |-> y[i - Len(b)]]]

IsSortedByMass(fs) ==
    \A i \in 1 .. (Len(fs) - 1) :
        fs[i].ion.monoisotopic_mass <= fs[i + 1].ion.monoisotopic_mass

RECURSIVE Ascending(_, _)
\* The arrangements of the entries fs[i], i in S, in ascending order of mass.
Ascending(fs, S) ==
    IF S = {} THEN {<<>>}
    ELSE LET least == {i \in S : \A j \in S :
                        fs[i].ion.monoisotopic_mass <= fs[j].ion.monoisotopic_mass}
         IN  UNION {{<<fs[i]>> \o rest : rest \in Ascending(fs, S \ {i})} : i \in least}

\* Line 48: sort_unstable_by on the mass.  The order of entries of equal mass
\* is not fixed, so every ascending arrangement is a possible outcome.
SortedFragments(fs) == Ascending(fs, DOMAIN fs)

FragmentMasses(fs) == [i \in DOMAIN fs |-> fs[i].ion.monoisotopic_mass]

\* Lines 59-64: the range search over the ladder, keyed by the ion's mass.
FragmentWindows(fs, lo, hi) == binary_search_slice(FragmentMasses(fs), lo, hi)

Panic == [state |-> "panic", out |-> <<>>]
Done(out) == [state |-> "done", out |-> out]
Pending == [state |-> "pending", out |-> <<>>]

\* Annotation carrying the charge-scaled mass instead of the peak's own.
Annotation_ScaledMass(peak, frag, c) ==
    [mass |-> peak.mass * c,
     intensity |-> peak.intensity,
     ion |-> IF frag.ion.kind = "B" THEN "b" ELSE "y",
     index |-> frag.index,
     charge |-> c]

\* Lines 72-85: the AnnotatedPeak of a peak, a ladder entry and a trial charge.
Annotation(peak, frag, c) ==
    [mass |-> peak.mass,
     intensity |-> peak.intensity,
     ion |-> IF frag.ion.kind = "B" THEN "b" ELSE "y",
     index |-> frag.index,
     charge |-> c]

\* SliceMatches reporting only the first entry of the window that matches.
SliceMatches_FirstOnly(fs, peak, c, lo, hi, w) ==
    IF w[1] > w[2] \/ w[2] > Len(fs) THEN Panic
    ELSE LET idx == {i \in (w[1] + 1) .. w[2] :
                        InBounds(fs[i].ion.monoisotopic_mass, lo, hi)}
         IN  IF idx = {} THEN Done(<<>>)
             ELSE Done(<<Annotation(peak, fs[CHOOSE i \in idx : \A j \in idx : i <= j], c)>>)

\* Lines 67-85 for one window w: the slice fragments[w.0..w.1] panics when
\* w.0 > w.1; otherwise its entries within [lo, hi] are annotated in order.
SliceMatches(fs, peak, c, lo, hi, w) ==
    IF w[1] > w[2] \/ w[2] > Len(fs) THEN Panic
    ELSE LET idx == {i \in (w[1] + 1) .. w[2] :
                        InBounds(fs[i].ion.monoisotopic_mass, lo, hi)}
             pick[k \in 0 .. Len(fs)] ==
                IF k = 0 THEN <<>>
                ELSE IF k \in idx THEN Append(pick[k - 1], Annotation(peak, fs[k], c))
                     ELSE pick[k - 1]
         IN  Done(pick[Len(fs)])

\* ChargeOutcomes searching for the peak's own mass, not scaled by the charge.
ChargeOutcomes_Unscaled(fs, peak, tol, c) ==
    LET m == peak.mass
        b == Tolerance_Ppm_bounds(-tol, tol, m)
    IN  {SliceMatches(fs, peak, c, b[1], b[2], w) : w \in FragmentWindows(fs, b[1], b[2])}

\* Lines 56-85: the outcomes of one trial charge of one peak.
ChargeOutcomes(fs, peak, tol, c) ==
    LET m == peak.mass * c
        b == Tolerance_Ppm_bounds(-tol, tol, m)
    IN  {SliceMatches(fs, peak, c, b[1], b[2], w) : w \in FragmentWindows(fs, b[1], b[2])}

RECURSIVE PeakOutcomesFrom(_, _, _, _, _)
\* Lines 55-86: the trial charges c .. max-1 of one peak, in order; a panic ends
\* the task.
PeakOutcomesFrom(fs, peak, tol, c, max) ==
    IF c >= max THEN {Done(<<>>)}
    ELSE LET first == ChargeOutcomes(fs, peak, tol, c)
             rest == PeakOutcomesFrom(fs, peak, tol, c + 1, max)
         IN  {IF a.state = "panic" \/ b.state = "panic" THEN Panic
              ELSE Done(a.out \o b.out) : a \in first, b \in rest}

\* Lines 54-87: the closure of flat_map_iter applied to one peak.
PeakOutcomes(fs, peak, tol, max) == PeakOutcomesFrom(fs, peak, tol, 1, max)

----------------------------------------------------------------------------
(* Inputs of the model *)

\* tolerance_ppm.unwrap_or(10.0), lib.rs line 117
DefaultTolerancePpm == 10
\* charge.unwrap_or(2), annotate.rs line 50
DefaultCharge == 2

SeqsUpTo(S, lo, hi) == UNION {[1 .. n -> S] : n \in lo .. hi}

Peak(m, i) == [mass |-> m, intensity |-> i]

\* The peaks of the spectra to annotate.
Peaks == {Peak(4, 1), Peak(5, 2)}

\* ProcessedSpectrum.peaks is sorted ascending by mass.
IsSortedPeaks(ps) == \A i \in 1 .. (Len(ps) - 1) : ps[i].mass <= ps[i + 1].mass

Tolerances == {-200000, 0, 200000}

ModChoices == {None, Some([resi |-> "G", mass |-> 2])}

NoTasks == <<>>

AnnotateIdle ==
    /\ sequence = <<>> /\ mods = None /\ query = <<>>
    /\ tolerance_ppm = None /\ charge = None /\ fragments = <<>>

XicIdle ==
    /\ spectra = <<>> /\ rt_min = 0 /\ rt_max = 0 /\ mass = 0
    /\ window = <<0, 0>>

\* No Mzml object takes part.
MzmlIdle ==
    /\ last_scan = 0 /\ title_to_idx = <<>> /\ passes = 0 /\ returned = <<>>

InitAnnotate ==
    /\ op = "annotate"
    /\ pc = "validate"
    /\ sequence \in SeqsUpTo(Chars, 1, MaxSeqLen)
    /\ mods \in ModChoices
    /\ query \in {ps \in SeqsUpTo(Peaks, 0, MaxPeaks) : IsSortedPeaks(ps)}
    /\ tolerance_ppm \in {None} \cup {Some(t) : t \in Tolerances}
    /\ charge \in {None} \cup {Some(c) : c \in 1 .. MaxCharge}
    /\ fragments = <<>>
    /\ tasks = NoTasks
    /\ result = <<>>
    /\ err = NoErr
    /\ XicIdle
    /\ MzmlIdle

----------------------------------------------------------------------------
(* Database::annotate_sequence and annotate_peaks, step by step *)

\* lib.rs line 117: tolerance_ppm.unwrap_or(10.0)
Tol == unwrap_or(tolerance_ppm, DefaultTolerancePpm)

\* annotate.rs line 50: charge.unwrap_or(2), the exclusive end of the trial charges
MaxTrial == unwrap_or(charge, DefaultCharge)

\* Validate with a check of the tolerance added after the check of the residues.
Validate_CheckTolerance ==
    /\ op = "annotate" /\ pc = "validate"
    /\ LET k == FirstInvalid(sequence)
       IN  IF k # 0
           THEN /\ err' = InvalidAminoAcid(sequence, sequence[k])
                /\ pc' = "error"
           ELSE IF Tol <= 0
                THEN /\ err' = [kind |-> "ConfigurationError", sequence |-> <<>>, ch |-> ""]
                     /\ pc' = "error"
                ELSE /\ err' = err
                     /\ pc' = "ladder"
    /\ UNCHANGED <<mzmlState, op, annotateInputs, fragments, xicInputs, window, tasks, result>>

\* lib.rs lines 86-93: the check of the residues.
Validate ==
    /\ op = "annotate" /\ pc = "validate"
    /\ LET k == FirstInvalid(sequence)
       IN  IF k # 0
           THEN /\ err' = InvalidAminoAcid(sequence, sequence[k])
                /\ pc' = "error"
           ELSE /\ err' = err
                /\ pc' = "ladder"
    /\ UNCHANGED <<mzmlState, op, annotateInputs, fragments, xicInputs, window, tasks, result>>

\* lib.rs lines 94-112 and annotate.rs lines 38-50: the peptide, its sorted
\* ladder, and one task per peak for par_iter.
BuildFragments ==
    /\ op = "annotate" /\ pc = "ladder"
    /\ fragments' \in SortedFragments(ChainedFragments(MakePeptide(sequence, mods)))
    /\ tasks' = [i \in DOMAIN query |-> Pending]
    /\ pc' = "tasks"
    /\ UNCHANGED <<mzmlState, op, annotateInputs, xicInputs, window, result, err>>

\* PeakTask taking the entries it matched out of the shared ladder.
PeakTask_Consuming(i) ==
    /\ op = "annotate" /\ pc = "tasks"
    /\ tasks[i].state = "pending"
    /\ \E o \in PeakOutcomes(fragments, query[i], Tol, MaxTrial) :
        /\ tasks' = [tasks EXCEPT ![i] = o]
        /\ fragments' = SelectSeq(fragments,
                LAMBDA f : \A a \in Range(o.out) : a.index # f.index)
    /\ UNCHANGED <<mzmlState, op, pc, annotateInputs, xicInputs, window, result, err>>

\* annotate.rs lines 54-87: the task of peak i, run by any worker at any time.
PeakTask(i) ==
    /\ op = "annotate" /\ pc = "tasks"
    /\ tasks[i].state = "pending"
    /\ \E o \in PeakOutcomes(fragments, query[i], Tol, MaxTrial) :
            tasks' = [tasks EXCEPT ![i] = o]
    /\ UNCHANGED <<mzmlState, op, pc, annotateInputs, fragments, xicInputs, window, result, err>>

\* annotate.rs line 88 and lib.rs line 114: collect, in the order of the peaks.
Collect ==
    /\ op = "annotate" /\ pc = "tasks"
    /\ \A i \in DOMAIN tasks : tasks[i].state = "done"
    /\ result' = Flatten([i \in DOMAIN tasks |-> tasks[i].out])
    /\ pc' = "done"
    /\ UNCHANGED <<mzmlState, op, annotateInputs, fragments, xicInputs, window, tasks, err>>

\* A panic of a task unwinds out of the call.
Unwind ==
    /\ pc = "tasks"
    /\ \E i \in DOMAIN tasks : tasks[i].state = "panic"
    /\ pc' = "panic"
    /\ UNCHANGED <<mzmlState, op, annotateInputs, fragments, xicInputs, window, tasks, result, err>>

NextAnnotate ==
    \/ Validate
    \/ BuildFragments
    \/ \E i \in DOMAIN tasks : PeakTask(i)
    \/ Collect
    \/ Unwind

SpecAnnotate == InitAnnotate /\ [][NextAnnotate]_vars

\* The synthetic spectrum of the round trip: one peak per ladder entry, its mass
\* the entry's at charge c, for the charges c that divide every ladder mass.
SyntheticQueries(s, ms) ==
    LET ladder == FragmentMasses(
                    CHOOSE fs \in SortedFragments(ChainedFragments(MakePeptide(s, ms))) : TRUE)
    IN  {[i \in DOMAIN ladder |-> Peak(ladder[i] \div c, 1)] :
            c \in {c \in 1 .. (MaxCharge - 1) : \A i \in DOMAIN ladder : ladder[i] % c = 0}}

InitRoundTrip ==
    /\ op = "annotate"
    /\ pc = "validate"
    /\ sequence \in SeqsUpTo(VALID_AA, 2, MaxSeqLen)
    /\ mods \in ModChoices
    /\ query \in SyntheticQueries(sequence, mods)
    /\ tolerance_ppm \in {None, Some(DefaultTolerancePpm)}
    /\ charge \in {None} \cup {Some(c) : c \in 1 .. MaxCharge}
    /\ fragments = <<>>
    /\ tasks = NoTasks
    /\ result = <<>>
    /\ err = NoErr
    /\ XicIdle
    /\ MzmlIdle

\* The steps of the call for a positive tolerance, with which no task panics.
NextRoundTrip ==
    \/ Validate
    \/ BuildFragments
    \/ \E i \in DOMAIN tasks : PeakTask(i)
    \/ Collect

SpecRoundTrip == InitRoundTrip /\ [][NextRoundTrip]_vars

----------------------------------------------------------------------------
(* src/src/lfq.rs: xic *)

\* Tolerance::Ppm(-5.0, 5.0), line 17
XicPpm == 5

Xic(rt, m, i) == [rt |-> rt, mass |-> m, intensity |-> i]

ScanTimes(sp) == [i \in DOMAIN sp |-> sp[i].scan_start_time]

\* SpectrumWindows with rt_min passed for both bounds.
SpectrumWindows_SameBound(sp, lo, hi) ==
    binary_search_slice(ScanTimes(sp), Exact(lo), Exact(lo))

\* Lines 19-24: the range search over the spectra, keyed by scan_start_time.
SpectrumWindows(sp, lo, hi) == binary_search_slice(ScanTimes(sp), Exact(lo), Exact(hi))

RECURSIVE SelectSeq2(_, _, _, _)
\* Lines 29-37: the peaks of a spectrum within [lo, hi], in order, as samples.
SelectSeq2(ps, rt, lo, hi) ==
    IF ps = <<>> THEN <<>>
    ELSE LET p == Head(ps)
             rest == SelectSeq2(Tail(ps), rt, lo, hi)
         IN  IF InBounds(p.mass, lo, hi)
             THEN <<Xic(rt, p.mass, p.intensity)>> \o rest
             ELSE rest

\* SpectrumSamples without the filter on the level.
SpectrumSamples_AnyLevel(spectrum, m) ==
    LET b == Tolerance_Ppm_bounds(-XicPpm, XicPpm, m)
    IN  SelectSeq2(spectrum.peaks, spectrum.scan_start_time, b[1], b[2])

\* Lines 27-38: the filter on the level and the closure of flat_map_iter,
\* applied to one spectrum of the slice.
SpectrumSamples(spectrum, m) ==
    LET b == Tolerance_Ppm_bounds(-XicPpm, XicPpm, m)
    IN  IF spectrum.level = 1
        THEN SelectSeq2(spectrum.peaks, spectrum.scan_start_time, b[1], b[2])
        ELSE <<>>

IsSortedSpectra(sp) ==
    \A i \in 1 .. (Len(sp) - 1) : sp[i].scan_start_time <= sp[i + 1].scan_start_time

\* The peak lists of the spectra of the model, around the target mass 400000:
\* 5 ppm of it is 2, so 399998 and 400002 lie on the bounds of the window.
PeakLists ==
    { << Peak(399997, 1), Peak(399998, 2), Peak(400000, 3) >>,
      << Peak(400002, 4), Peak(400003, 5) >> }

Spectrum == [level : {1, 2}, scan_start_time : {1, 2, 3}, peaks : PeakLists]
RtBounds == {0, 2, 4}
TargetMasses == {400000}

InitXic ==
    /\ op = "xic"
    /\ pc = "window"
    /\ spectra \in {sp \in SeqsUpTo(Spectrum, 0, MaxSpectra) : IsSortedSpectra(sp)}
    /\ rt_min \in RtBounds
    /\ rt_max \in {r \in RtBounds : rt_min <= r}
    /\ mass \in TargetMasses
    /\ window = <<0, 0>>
    /\ tasks = NoTasks
    /\ result = <<>>
    /\ err = NoErr
    /\ AnnotateIdle
    /\ MzmlIdle

\* Lines 17-26: the bounds, the range search, the slice spectra[window.0..window.1]
\* (a panic when it is out of range) and one task per spectrum of the slice.
XicWindow ==
    /\ op = "xic" /\ pc = "window"
    /\ \E w \in SpectrumWindows(spectra, rt_min, rt_max) :
        /\ window' = w
        /\ IF w[1] > w[2] \/ w[2] > Len(spectra)
           THEN /\ pc' = "panic"
                /\ tasks' = tasks
           ELSE /\ pc' = "tasks"
                /\ tasks' = [k \in 1 .. (w[2] - w[1]) |-> Pending]
    /\ UNCHANGED <<mzmlState, op, annotateInputs, fragments, xicInputs, result, err>>

\* Lines 27-38: the task of the k-th spectrum of the slice.
SpectrumTask(k) ==
    /\ op = "xic" /\ pc = "tasks"
    /\ tasks[k].state = "pending"
    /\ tasks' = [tasks EXCEPT ![k] = Done(SpectrumSamples(spectra[window[1] + k], mass))]
    /\ UNCHANGED <<mzmlState, op, pc, annotateInputs, fragments, xicInputs, window, result, err>>

\* Line 39: collect, in the order of the spectra.
XicCollect ==
    /\ op = "xic" /\ pc = "tasks"
    /\ \A k \in DOMAIN tasks : tasks[k].state = "done"
    /\ result' = Flatten([k \in DOMAIN tasks |-> tasks[k].out])
    /\ pc' = "done"
    /\ UNCHANGED <<mzmlState, op, annotateInputs, fragments, xicInputs, window, tasks, err>>

NextXic ==
    \/ XicWindow
    \/ \E k \in DOMAIN tasks : SpectrumTask(k)
    \/ XicCollect

SpecXic == InitXic /\ [][NextXic]_vars

----------------------------------------------------------------------------
(* src/src/spectra.rs: Mzml *)

\* A method of Mzml runs with the object borrowed (PyRef, or PyRefMut for
\* __next__), so the calls on one object follow one another: each method is
\* one step.  __repr__ reads file and spectra.len() as scans does and is not
\* a step of its own.

MaxPasses == 2
\* More calls of __next__ than there are spectra, to run past the end.
MaxCalls == MaxSpectra + 2

\* The spectrum ids of the model; two spectra of a file may carry the same id.
Titles == {"s1", "s2"}

MzmlPeaks == << Peak(400000, 3) >>

ProcessedSpectrum ==
    [id : Titles, level : {1}, scan_start_time : {1, 2}, peaks : {MzmlPeaks}]

\* Lines 70-74: enumerate the spectra and collect (id, idx) into a HashMap; of
\* two spectra with one id the later insertion stays.
TitleIndex(sp) ==
    [t \in {sp[i].id : i \in DOMAIN sp} |->
        CHOOSE x \in 0 .. (Len(sp) - 1) :
            /\ sp[x + 1].id = t
            /\ \A y \in 0 .. (Len(sp) - 1) : sp[y + 1].id = t => y <= x]

\* Vec::get with a 0-based index.
get(v, x) == IF x < Len(v) THEN Some(v[x + 1]) ELSE None

\* Lines 238-250: From<ProcessedSpectrum> for Spectrum; the id becomes the title.
SpectrumFrom(val) ==
    [level |-> val.level,
     title |-> val.id,
     scan_start_time |-> val.scan_start_time,
     peaks |-> [i \in DOMAIN val.peaks |->
                    Peak(val.peaks[i].mass, val.peaks[i].intensity)]]

\* .cloned().map(Into::into) of an Option<&ProcessedSpectrum>
ClonedInto(o) == IF o = None THEN None ELSE Some(SpectrumFrom(o[1]))

\* PyValueError("invalid scan: {}", scan)
InvalidScan(scan) == [kind |-> "PyValueError", sequence |-> <<>>, ch |-> scan]

\* Lines 49-56: title_to_idx.get(scan).and_then(|idx| spectra.get(*idx))
get_sage_spectra(scan) ==
    IF scan \in DOMAIN title_to_idx THEN get(spectra, title_to_idx[scan]) ELSE None

\* Lines 62-82: Mzml::new, for a file that read_mzml reads.
InitMzml ==
    /\ op = "mzml"
    /\ pc = "ready"
    /\ spectra \in {sp \in SeqsUpTo(ProcessedSpectrum, 0, MaxSpectra) : IsSortedSpectra(sp)}
    /\ title_to_idx = TitleIndex(spectra)
    /\ last_scan = 0
    /\ passes = 0
    /\ returned = <<>>
    /\ rt_min = 0 /\ rt_max = 0 /\ mass = 0
    /\ window = <<0, 0>>
    /\ tasks = NoTasks
    /\ result = <<>>
    /\ err = NoErr
    /\ AnnotateIdle

\* Lines 84-87: the getter scans.
Mzml_scans ==
    /\ op = "mzml"
    /\ result' = << Len(spectra) >>
    /\ err' = NoErr
    /\ UNCHANGED <<mzmlState, op, pc, annotateInputs, fragments, xicInputs, window, tasks>>

\* Lines 93-95: get_spectrum(scan).
Mzml_get_spectrum ==
    /\ op = "mzml"
    /\ \E scan \in Titles :
        LET found == ClonedInto(get_sage_spectra(scan))
        IN  /\ result' = found
            /\ err' = IF found = None THEN InvalidScan(scan) ELSE NoErr
    /\ UNCHANGED <<mzmlState, op, pc, annotateInputs, fragments, xicInputs, window, tasks>>

\* Lines 97-107: xic(psm, charge, rt_tolerance) with a tolerance given; the
\* retention time of the psm, the tolerance and the quotient of line 105 are
\* drawn, and lfq::xic runs on the borrowed spectra.
Mzml_xic ==
    /\ op = "mzml"
    /\ \E rt \in {1, 2}, tol \in {0, 1}, m \in TargetMasses :
        \E w \in SpectrumWindows(spectra, rt - tol, rt + tol) :
            result' = Flatten([k \in 1 .. (w[2] - w[1]) |->
                                    SpectrumSamples(spectra[w[1] + k], m)])
    /\ err' = NoErr
    /\ UNCHANGED <<mzmlState, op, pc, annotateInputs, fragments, xicInputs, window, tasks>>

\* __iter__ starting the pass over: last_scan back at 0.
Mzml_iter_Rewind ==
    /\ op = "mzml"
    /\ passes < MaxPasses
    /\ passes' = passes + 1
    /\ last_scan' = 0
    /\ UNCHANGED <<title_to_idx, returned, op, pc, annotateInputs, fragments,
                   xicInputs, window, tasks, result, err>>

\* Lines 109-111: __iter__ returns the object itself.
Mzml_iter ==
    /\ op = "mzml"
    /\ passes < MaxPasses
    /\ passes' = passes + 1
    /\ UNCHANGED <<last_scan, title_to_idx, returned, op, pc, annotateInputs,
                   fragments, xicInputs, window, tasks, result, err>>

\* Lines 112-116: __next__; a None becomes Python's StopIteration.
Mzml_next ==
    /\ op = "mzml"
    /\ Len(returned) < MaxCalls
    /\ LET x == last_scan
       IN  /\ last_scan' = last_scan + 1
           /\ returned' = Append(returned,
                    [pass |-> passes, value |-> ClonedInto(get(spectra, x))])
    /\ UNCHANGED <<title_to_idx, passes, op, pc, annotateInputs, fragments,
                   xicInputs, window, tasks, result, err>>

NextMzml ==
    \/ Mzml_scans
    \/ Mzml_get_spectrum
    \/ Mzml_xic
    \/ Mzml_iter
    \/ Mzml_next

SpecMzml == InitMzml /\ [][NextMzml]_vars

----------------------------------------------------------------------------

Init == InitAnnotate \/ InitXic

Next == NextAnnotate \/ NextXic

Spec == Init /\ [][Next]_vars

----------------------------------------------------------------------------
(* Claims *)

\* The (spectrum, peak) pairs a chromatogram must sample: the spectrum within
\* [rt_min, rt_max] and of level 1, the peak within 5 ppm of the target mass.
XicPairs ==
    {p \in UNION {{<<i, j>> : j \in DOMAIN spectra[i].peaks} : i \in DOMAIN spectra} :
        LET sp == spectra[p[1]]
            pk == sp.peaks[p[2]]
        IN  /\ rt_min <= sp.scan_start_time /\ sp.scan_start_time <= rt_max
            /\ sp.level = 1
            /\ (pk.mass - mass) * Million >= -XicPpm * mass
            /\ (pk.mass - mass) * Million <= XicPpm * mass}

XicOfPair(p) ==
    Xic(spectra[p[1]].scan_start_time,
        spectra[p[1]].peaks[p[2]].mass,
        spectra[p[1]].peaks[p[2]].intensity)

ExactRange(keys, lo, hi, w) ==
    /\ 0 <= w[1] /\ w[1] <= w[2] /\ w[2] <= Len(keys)
    /\ \A k \in DOMAIN keys :
        (w[1] < k /\ k <= w[2]) <=> (lo <= keys[k] /\ keys[k] <= hi)

\* Whether w is the exact range of the keys within t ppm of the mass m.
ExactPpmRange(keys, m, t, w) ==
    /\ 0 <= w[1] /\ w[1] <= w[2] /\ w[2] <= Len(keys)
    /\ \A k \in DOMAIN keys :
        (w[1] < k /\ k <= w[2]) <=>
            /\ (keys[k] - m) * Million >= -t * m
            /\ (keys[k] - m) * Million <= t * m

MatchTriples ==
    {t \in (DOMAIN query) \X (1 .. ((IF charge = None THEN 2 ELSE charge[1]) - 1))
            \X (DOMAIN fragments) :
        LET m == query[t[1]].mass * t[2]
            f == fragments[t[3]].ion.monoisotopic_mass
        IN  /\ (f - m) * Million >= -Tol * m
            /\ (f - m) * Million <= Tol * m}

AnnotationOfTriple(t) ==
    [mass |-> query[t[1]].mass,
     intensity |-> query[t[1]].intensity,
     ion |-> IF fragments[t[3]].ion.kind = "B" THEN "b" ELSE "y",
     index |-> fragments[t[3]].index,
     charge |-> t[2]]

\* C2: the list annotate_peaks returns holds, as a multiset without
\* deduplication, one AnnotatedPeak per triple (peak p, trial charge c, ladder
\* entry f) with 1 <= c < max_charge and f's mass within tolerance_ppm of
\* p.mass * c, and nothing else; it carries p's own mass and intensity, f's
\* kind and ordinal, and c; without a charge only charge 1 is tried.
C2_AnnotationsExact ==
    (op = "annotate" /\ pc = "done") =>
        /\ \A a \in Range(result) \cup {AnnotationOfTriple(t) : t \in MatchTriples} :
            Count(result, a) = Cardinality({t \in MatchTriples : AnnotationOfTriple(t) = a})
        /\ charge = None => \A a \in Range(result) : a.charge = 1

\* C2 witness: a returned list in which one peak is annotated at two charges
\* and some annotation is reported twice.
C2_Witness ==
    /\ op = "annotate" /\ pc = "done"
    /\ \E a, b \in Range(result) :
        a.mass = b.mass /\ a.intensity = b.intensity /\ a.charge = 1 /\ b.charge = 2
    /\ \E a \in Range(result) : Count(result, a) = 2

\* C3: a sequence with a character outside VALID_AA ends annotate_sequence with
\* the PyValueError naming that character (the first such) and the whole
\* sequence, before the ladder is built and before any peak task runs, with
\* nothing returned; a sequence of valid characters never raises it.
C3_InvalidResidueError ==
    op = "annotate" =>
        IF \E i \in DOMAIN sequence : sequence[i] \notin VALID_AA
        THEN /\ pc \in {"validate", "error"}
             /\ fragments = <<>> /\ tasks = NoTasks /\ result = <<>>
             /\ pc = "error" =>
                /\ err.kind = "PyValueError"
                /\ err.sequence = sequence
                /\ \E i \in DOMAIN sequence :
                    /\ sequence[i] = err.ch
                    /\ sequence[i] \notin VALID_AA
                    /\ \A j \in 1 .. (i - 1) : sequence[j] \in VALID_AA
        ELSE pc # "error" /\ err = NoErr

\* C3 witness: the error raised for a sequence whose first two characters are
\* valid and whose third is not.
C3_Witness ==
    /\ op = "annotate" /\ pc = "error"
    /\ Len(sequence) = 3
    /\ sequence[1] \in VALID_AA /\ sequence[2] \in VALID_AA
    /\ err.ch = sequence[3]

\* C4 as stated: an annotation of a valid sequence called with
\* tolerance_ppm <= 0 does not return a list; it signals a ConfigurationError.
C4_Original ==
    (/\ op = "annotate" /\ Tol <= 0 /\ pc \in {"done", "error"}
     /\ \A i \in DOMAIN sequence : sequence[i] \in VALID_AA) =>
        (pc = "error" /\ err.kind = "ConfigurationError")

\* C4, amended: the tolerance is never checked.  With tolerance_ppm <= 0 the
\* only error is the PyValueError of an invalid residue, a valid sequence goes
\* on to the ladder and the peak tasks, and with tolerance_ppm = 0 the call
\* returns the annotations of the ladder entries whose mass is exactly
\* peak.mass * c.
C4_ToleranceUnchecked ==
    (op = "annotate" /\ Tol <= 0) =>
        /\ err.kind \in {"none", "PyValueError"}
        /\ (pc = "error") <=>
            (pc # "validate" /\ \E i \in DOMAIN sequence : sequence[i] \notin VALID_AA)
        /\ (Tol = 0 /\ pc = "tasks") => \A i \in DOMAIN tasks : tasks[i].state # "panic"
        /\ (Tol = 0 /\ pc = "done") =>
            \A a \in Range(result) :
                \E i \in DOMAIN query, j \in DOMAIN fragments :
                    /\ fragments[j].ion.monoisotopic_mass = query[i].mass * a.charge
                    /\ a.mass = query[i].mass /\ a.index = fragments[j].index

\* C4 witness: a call with tolerance_ppm = 0 that returned annotations.
C4_Witness ==
    /\ op = "annotate" /\ pc = "done"
    /\ tolerance_ppm = Some(0)
    /\ result # <<>>

\* The mass a residue contributes: its own and that of its modification.
ModifiedMass(ch) ==
    ResidueMass(ch) + (IF mods # None /\ mods[1].resi = ch THEN mods[1].mass ELSE 0)

\* The mass of the residues i .. j of the sequence.
SpanMass(i, j) ==
    SumTo([k \in 1 .. (j - i + 1) |-> ModifiedMass(sequence[i + k - 1])], j - i + 1)

\* C6: for a peptide of n >= 2 residues the ladder has 2(n-1) entries: for
\* each k in 1..n-1 one B ion of ordinal k, the prefix of k residues, and one
\* Y ion of ordinal k, the suffix of k residues; it is sorted ascending by
\* mass and no ordinal is below 1.
C6_LadderOrdinals ==
    (op = "annotate" /\ pc \in {"tasks", "done", "panic"} /\ Len(sequence) >= 2) =>
        LET n == Len(sequence)
            of(kind, k) == {j \in DOMAIN fragments :
                                fragments[j].ion.kind = kind /\ fragments[j].index = k}
        IN  /\ Len(fragments) = 2 * (n - 1)
            /\ \A j \in DOMAIN fragments :
                fragments[j].index >= 1 /\ fragments[j].index <= n - 1
            /\ \A k \in 1 .. (n - 1) :
                /\ Cardinality(of("B", k)) = 1
                /\ Cardinality(of("Y", k)) = 1
                /\ \A j \in of("B", k) :
                    fragments[j].ion.monoisotopic_mass = SpanMass(1, k)
                /\ \A j \in of("Y", k) :
                    fragments[j].ion.monoisotopic_mass = SpanMass(n - k + 1, n)
            /\ IsSortedByMass(fragments)

\* C6 witness: the ladder of a modified peptide of three residues in which a B
\* ion and a Y ion have the same mass.
C6_Witness ==
    /\ op = "annotate" /\ pc = "tasks"
    /\ Len(sequence) = 3 /\ mods # None
    /\ \E i, j \in DOMAIN fragments :
        /\ fragments[i].ion.kind = "B" /\ fragments[j].ion.kind = "Y"
        /\ fragments[i].ion.monoisotopic_mass = fragments[j].ion.monoisotopic_mass

\* Whether the spectrum is the ladder at charge c: one peak per ladder entry,
\* peak.mass * c the entry's mass.
IsLadderAt(c) ==
    /\ Len(query) = Len(fragments) /\ query # <<>>
    /\ \A i \in DOMAIN query : query[i].mass * c = fragments[i].ion.monoisotopic_mass

\* The annotation that recovers peak i: its ladder entry at charge c.
Recovered(i, c) ==
    [mass |-> query[i].mass,
     intensity |-> query[i].intensity,
     ion |-> IF fragments[i].ion.kind = "B" THEN "b" ELSE "y",
     index |-> fragments[i].index,
     charge |-> c]

\* C7 as stated: annotating the ladder at a charge c < max_charge with a small
\* tolerance returns one AnnotatedPeak per synthetic peak, that of its ladder
\* entry at charge c, and no other annotation.
C7_Original ==
    (op = "annotate" /\ pc = "done") =>
        \A c \in 1 .. (MaxTrial - 1) :
            IsLadderAt(c) =>
                SameBag(result, [i \in DOMAIN query |-> Recovered(i, c)])

\* C7, amended: the annotations returned hold, for each synthetic peak, that of
\* its ladder entry at charge c; they are one per peak, and so exactly these,
\* precisely when no other pair of a ladder entry and a trial charge lies
\* within the tolerance of a synthetic peak.
C7_RoundTripRecovers ==
    (op = "annotate" /\ pc = "done") =>
        \A c \in 1 .. (MaxTrial - 1) :
            IsLadderAt(c) =>
                /\ \A i \in DOMAIN query : Recovered(i, c) \in Range(result)
                /\ {<<i, c, i>> : i \in DOMAIN query} \subseteq MatchTriples
                /\ (Len(result) = Len(query)) <=>
                        (MatchTriples = {<<i, c, i>> : i \in DOMAIN query})
                /\ MatchTriples = {<<i, c, i>> : i \in DOMAIN query} =>
                        SameBag(result, [i \in DOMAIN query |-> Recovered(i, c)])

\* C7 witness: the ladder of a peptide at charge 2, annotated with trial
\* charges 1 and 2 and recovered with one annotation per peak.
C7_Witness ==
    /\ op = "annotate" /\ pc = "done"
    /\ MaxTrial = 3
    /\ IsLadderAt(2)
    /\ Len(result) = Len(query)
    /\ \A i \in DOMAIN query : Recovered(i, 2) \in Range(result)

\* The annotations of the spectrum with the tolerance t > 0.
AnnotatedAt(t) ==
    Flatten([i \in DOMAIN query |->
        (CHOOSE o \in PeakOutcomes(fragments, query[i], t, MaxTrial) : TRUE).out])

WiderTolerances == {10, 200000, 600000}

Sequential ==
    IF op = "annotate"
    THEN Flatten([i \in DOMAIN query |->
            (CHOOSE o \in PeakOutcomes(fragments, query[i], Tol, MaxTrial) :
                o.state = "done").out])
    ELSE Flatten([k \in 1 .. (window[2] - window[1]) |->
            SpectrumSamples(spectra[window[1] + k], mass)])

\* C10: whatever the order in which the peak tasks, or the spectrum tasks, run,
\* the call returns the multiset a left-to-right run returns; a task writes
\* its own output only, and the ladder, the peaks and the spectra stay as
\* they were when the tasks started.
C10_TasksIndependent ==
    /\ [](pc = "done" => SameBag(result, Sequential))
    /\ [][pc = "tasks" =>
            /\ fragments' = fragments /\ query' = query /\ spectra' = spectra
            /\ pc' = "tasks" =>
                \E i \in DOMAIN tasks :
                    \A j \in DOMAIN tasks \ {i} : tasks'[j] = tasks[j]]_vars

\* C10 witness: the second task has returned annotations while the first has
\* not yet run.
C10_Witness ==
    /\ pc = "tasks" /\ Len(tasks) >= 2
    /\ tasks[1].state = "pending"
    /\ tasks[2].state = "done" /\ tasks[2].out # <<>>

\* The Spectrum a call of __next__ hands out for the stored spectrum sp: the
\* fields of sp, its id as the title.
Yields(v, sp) ==
    /\ v # None
    /\ v[1].title = sp.id
    /\ v[1].level = sp.level
    /\ v[1].scan_start_time = sp.scan_start_time
    /\ v[1].peaks = sp.peaks

\* C11: iterating an Mzml.  The k-th call of __next__ returns the spectrum at
\* index k-1 while k is at most the number of spectra and None afterwards;
\* last_scan counts the calls, grows by exactly one in each call of __next__
\* (also in one that returns None) and is changed by no other operation, not
\* by __iter__ either, so no index is handed out twice and once a call has
\* returned None every later call does, in whatever pass; the stored spectra
\* and the title index are the same after every operation.
C11_IterationOnce ==
    /\ [](op = "mzml" =>
            /\ last_scan = Len(returned)
            /\ \A k \in DOMAIN returned :
                IF k <= Len(spectra)
                THEN Yields(returned[k].value, spectra[k])
                ELSE returned[k].value = None
            /\ Cardinality({k \in DOMAIN returned : returned[k].value # None})
                    <= Len(spectra)
            /\ \A j, k \in DOMAIN returned :
                    j < k /\ returned[j].value = None => returned[k].value = None)
    /\ [][op = "mzml" =>
            /\ spectra' = spectra
            /\ title_to_idx' = title_to_idx
            /\ IF returned' # returned
               THEN /\ Len(returned') = Len(returned) + 1
                    /\ last_scan' = last_scan + 1
               ELSE last_scan' = last_scan]_vars

\* C11 witness: a first pass handed out two or more spectra and ended with
\* None, __iter__ was called again, and the call of __next__ of the second
\* pass returned None.
C11_Witness ==
    /\ op = "mzml" /\ Len(spectra) >= 2 /\ passes = 2
    /\ \E j, k \in DOMAIN returned :
        /\ j < k
        /\ returned[1].pass = 1 /\ returned[1].value # None
        /\ returned[j].pass = 1 /\ returned[j].value = None
        /\ returned[k].pass = 2 /\ returned[k].value = None
        /\ last_scan = k

====
